---- MODULE Spec2Model ----
(***************************************************************************)
(* Model of the APIMS "Casier Judiciaire" connector                        *)
(* (passerelle_imio_apims_casier_judiciaire/models.py).                    *)
(*                                                                         *)
(* The connector holds four configuration fields and exposes four          *)
(* endpoints.  Three of them issue one HTTP GET to the upstream service    *)
(* and translate the reply; the fourth decodes a base64 payload.  The      *)
(* model follows one request at a time from its arrival to its outcome.    *)
(* An endpoint that calls the upstream service is split at the blocking    *)
(* HTTP call: the first step issues the call, the second step receives     *)
(* the upstream reply and runs the rest of the handler.                    *)
(*                                                                         *)
(* Strings that the code inspects are sequences: a URL is a sequence of    *)
(* URL tokens, a base64 text is a sequence of characters.  Headers that    *)
(* the HTTP client library adds by itself are not modelled, only the ones  *)
(* the connector sets.                                                     *)
(***************************************************************************)
EXTENDS Integers, Sequences, FiniteSets, TLC

VARIABLES
    cfg,      \* the connector's four configuration fields
    pc,       \* "idle", "awaiting" (an upstream call is in flight) or "done"
    op,       \* the request being handled or handled last
    params,   \* its parameters
    reply,    \* the upstream reply to its call
    calls,    \* the outbound HTTP calls it has issued
    outcome   \* how it ended

vars == <<cfg, pc, op, params, reply, calls, outcome>>

(***************************************************************************)
(* Bounds of the model.                                                    *)
(***************************************************************************)
MaxItems == 2   \* longest upstream "items" list
MaxLen == 3     \* longest arbitrary pdf_base64 text
MaxBytes == 3   \* longest byte string whose encoding is posted to decode-extract

None == "None"  \* Python's None, where a string is expected

SeqsUpTo(S, n) == UNION {[1..k -> S] : k \in 0..n}

(***************************************************************************)
(* Configuration fields and their validation (Django field cleaning).      *)
(***************************************************************************)
max_length == 128

\* The number of characters of a string given as a sequence of tokens.
RECURSIVE StrLen(_)
StrLen(value) ==
    IF value = <<>> THEN 0 ELSE Len(Head(value)) + StrLen(Tail(value))

endswith(value, suffix) == Len(value) > 0 /\ value[Len(value)] = suffix

\* validate_url: the validation errors it raises.
validate_url_no_check(value) == {}

validate_url(value) == IF endswith(value, "/") THEN {"trailing_slash"} ELSE {}

\* The URL validator that a URLField carries: scheme, "://", host, and a
\* path without white space.
Schemes == {"http", "https", "ftp", "ftps"}

Hosts == {"api-staging.imio.be"}

URLValidator(value) ==
    IF /\ Len(value) >= 3
       /\ value[1] \in Schemes
       /\ value[2] = "://"
       /\ value[3] \in Hosts
       /\ Len(value) >= 4 => value[4] = "/"
       /\ \A i \in 4..Len(value) : value[i] # " "
    THEN {}
    ELSE {"invalid"}

MaxLengthValidator(length) ==
    IF length > max_length THEN {"max_length"} ELSE {}

\* Field.clean of the url field: blank=True lets the empty value through
\* without running the validators.
clean_url(value) ==
    IF value = <<>>
    THEN {}
    ELSE validate_url(value) \cup URLValidator(value)
            \cup MaxLengthValidator(StrLen(value))

\* Field.clean of username, password and municipality_nis_code.
clean_char(value) ==
    IF value = "" THEN {} ELSE MaxLengthValidator(Len(value))

field_errors(form) ==
    [url |-> clean_url(form.url),
     username |-> clean_char(form.username),
     password |-> clean_char(form.password),
     municipality_nis_code |-> clean_char(form.municipality_nis_code)]

NoErrors == [url |-> {}, username |-> {}, password |-> {},
             municipality_nis_code |-> {}]

DefaultUrl ==
    <<"https", "://", "api-staging.imio.be", "/", "bosa", "/", "v1">>

\* The field defaults of a new connector.
DefaultConfig ==
    [url |-> DefaultUrl, username |-> "", password |-> "",
     municipality_nis_code |-> ""]

\* A string of 130 characters.
LongText ==
    "0123456789012345678901234567890123456789012345678901234567890123456789012345678901234567890123456789012345678901234567890123456789"

UrlCandidates ==
    {<<>>,
     DefaultUrl,
     DefaultUrl \o <<"/">>,
     <<"https", "://", "api-staging.imio.be", "/">>,
     <<"bosa", "/", "v1">>,
     <<"https", "://", "api-staging.imio.be", "/", "bosa", " ", "v1">>,
     <<"https", "://", "api-staging.imio.be", "/", LongText>>}

Forms ==
    [url : UrlCandidates,
     username : {"", "apims_user", LongText},
     password : {"", "s3cret"},
     municipality_nis_code : {"92094"}]

(***************************************************************************)
(* Requests, replies and outcomes.                                         *)
(***************************************************************************)
HttpEndpoints == {"list-extract-types", "get-extract", "get-delayed-extract"}

Endpoints == HttpEndpoints \cup {"decode-extract"}

Languages == {"fr", "nl"}

ItemCodes == {"595", "596", "5962"}

Item(code) == [code |-> code, label |-> <<"Modele", code>>]

ItemLists == SeqsUpTo({Item(c) : c \in ItemCodes}, MaxItems)

\* An upstream body: text that is not JSON, a JSON array, or a JSON object
\* with or without an "items" list; "total" stands for its other fields.
TextBody ==
    [json |-> FALSE, shape |-> "text", has_items |-> FALSE, items |-> <<>>,
     total |-> 0]

ArrayBody ==
    [json |-> TRUE, shape |-> "array", has_items |-> FALSE, items |-> <<>>,
     total |-> 0]

ObjectBody(items) ==
    [json |-> TRUE, shape |-> "object", has_items |-> TRUE, items |-> items,
     total |-> Len(items)]

ErrorObjectBody ==
    [json |-> TRUE, shape |-> "object", has_items |-> FALSE, items |-> <<>>,
     total |-> 0]

Bodies ==
    {TextBody, ArrayBody, ErrorObjectBody} \cup {ObjectBody(l) : l \in ItemLists}

Statuses == {200, 399, 400, 499, 500, 599}

NoJson ==
    [json |-> FALSE, shape |-> "none", has_items |-> FALSE, items |-> <<>>,
     total |-> 0]

NoReply == [kind |-> "none", status_code |-> 0, body |-> NoJson]

Replies ==
    {[kind |-> "RequestException", status_code |-> 0, body |-> NoJson]}
        \cup [kind : {"response"}, status_code : Statuses, body : Bodies]

NoPdf == [content_type |-> "", content |-> <<>>]

NoOutcome ==
    [kind |-> "none", detail |-> "", json |-> NoJson, pdf |-> NoPdf,
     errors |-> NoErrors]

\* The handler returns a JSON document.
ReturnJson(json) == [NoOutcome EXCEPT !.kind = "return", !.json = json]

\* The handler returns an HttpResponse.
HttpResponse(content, content_type) ==
    [NoOutcome EXCEPT !.kind = "return",
                      !.pdf = [content_type |-> content_type,
                               content |-> content]]

\* The handler raises the connector's typed error.
APIError(message) == [NoOutcome EXCEPT !.kind = "APIError", !.detail = message]

\* The handler lets another exception escape.
Raise(exception) == [NoOutcome EXCEPT !.kind = "exception", !.detail = exception]

Init ==
    /\ cfg = DefaultConfig
    /\ pc = "idle"
    /\ op = "none"
    /\ params = <<>>
    /\ reply = NoReply
    /\ calls = <<>>
    /\ outcome = NoOutcome

(***************************************************************************)
(* base64: the decoder the connector calls (non-strict mode: characters    *)
(* outside the alphabet are skipped, and a complete pad sequence ends the  *)
(* input), and the standard encoder, used to build well-formed inputs.     *)
(***************************************************************************)
B64Alphabet ==
    <<"A", "B", "C", "D", "E", "F", "G", "H", "I", "J", "K", "L", "M",
      "N", "O", "P", "Q", "R", "S", "T", "U", "V", "W", "X", "Y", "Z",
      "a", "b", "c", "d", "e", "f", "g", "h", "i", "j", "k", "l", "m",
      "n", "o", "p", "q", "r", "s", "t", "u", "v", "w", "x", "y", "z",
      "0", "1", "2", "3", "4", "5", "6", "7", "8", "9", "+", "/">>

BASE64_PAD == "="

NonAscii == "U+00E9"  \* one character outside ASCII

InAlphabet(ch) == \E i \in 1..64 : B64Alphabet[i] = ch

table_a2b_base64(ch) == (CHOOSE i \in 1..64 : B64Alphabet[i] = ch) - 1

DecodeOk(bytes) == [ok |-> TRUE, error |-> "", bytes |-> bytes]

DecodeError(error) == [ok |-> FALSE, error |-> error, bytes |-> <<>>]

RECURSIVE a2b_base64(_, _, _, _, _)
a2b_base64(data, quad_pos, leftchar, pads, bin) ==
    IF data = <<>>
    THEN IF quad_pos # 0 THEN DecodeError("ValueError") ELSE DecodeOk(bin)
    ELSE
        LET this_ch == Head(data)
            rest == Tail(data)
        IN  IF this_ch = BASE64_PAD
            THEN IF quad_pos >= 2 /\ quad_pos + pads + 1 >= 4
                 THEN DecodeOk(bin)
                 ELSE a2b_base64(rest, quad_pos, leftchar,
                                 IF quad_pos >= 2 THEN pads + 1 ELSE pads, bin)
            ELSE IF ~InAlphabet(this_ch)
            THEN a2b_base64(rest, quad_pos, leftchar, pads, bin)
            ELSE
                LET v == table_a2b_base64(this_ch)
                IN  CASE quad_pos = 0 ->
                            a2b_base64(rest, 1, v, 0, bin)
                      [] quad_pos = 1 ->
                            a2b_base64(rest, 2, v % 16, 0,
                                Append(bin, (leftchar * 4 + v \div 16) % 256))
                      [] quad_pos = 2 ->
                            a2b_base64(rest, 3, v % 4, 0,
                                Append(bin, (leftchar * 16 + v \div 4) % 256))
                      [] quad_pos = 3 ->
                            a2b_base64(rest, 0, 0, 0,
                                Append(bin, (leftchar * 64 + v) % 256))

\* base64.b64decode(s): s is the JSON value of the pdf_base64 field.
b64decode(s) ==
    IF s.type # "str" THEN DecodeError("TypeError")
    ELSE IF \E i \in 1..Len(s.text) : s.text[i] = NonAscii
    THEN DecodeError("ValueError")
    ELSE a2b_base64(s.text, 0, 0, 0, <<>>)

RECURSIVE b64encode(_)
b64encode(bytes) ==
    LET a(i) == B64Alphabet[i + 1]
        b(i) == bytes[i]
    IN  IF bytes = <<>> THEN <<>>
        ELSE IF Len(bytes) = 1
        THEN <<a(b(1) \div 4), a((b(1) % 4) * 16), "=", "=">>
        ELSE IF Len(bytes) = 2
        THEN <<a(b(1) \div 4), a((b(1) % 4) * 16 + b(2) \div 16),
               a((b(2) % 16) * 4), "=">>
        ELSE <<a(b(1) \div 4), a((b(1) % 4) * 16 + b(2) \div 16),
               a((b(2) % 16) * 4 + b(3) \div 64), a(b(3) % 64)>>
                \o b64encode(SubSeq(bytes, 4, Len(bytes)))

SampleBytes == {65, 255}

ByteStrings == SeqsUpTo(SampleBytes, MaxBytes)

InputChars == {"Q", "=", "!"}

\* The texts posted as pdf_base64: encodings of byte strings, arbitrary
\* short texts, and texts with a character outside ASCII.
Base64Texts ==
    {b64encode(bytes) : bytes \in ByteStrings}
        \cup SeqsUpTo(InputChars, MaxLen)
        \cup {<<NonAscii>>, <<"Q", "Q", NonAscii, "=">>}

\* The body of a decode-extract request.
NoField == [type |-> "absent", text |-> <<>>]

RequestBody(json, shape, field) ==
    [json |-> json, shape |-> shape, pdf_base64 |-> field]

RequestBodies ==
    {RequestBody(FALSE, "text", NoField),
     RequestBody(TRUE, "array", NoField),
     RequestBody(TRUE, "object", NoField),
     RequestBody(TRUE, "object", [type |-> "number", text |-> <<>>]),
     RequestBody(TRUE, "object", [type |-> "null", text |-> <<>>])}
        \cup {RequestBody(TRUE, "object", [type |-> "str", text |-> t]) :
                t \in Base64Texts}

(***************************************************************************)
(* Saving a configuration: the form is cleaned field by field and is       *)
(* stored only when no field has an error.                                 *)
(***************************************************************************)
full_clean(form) ==
    /\ pc # "awaiting"
    /\ LET errors == field_errors(form)
       IN  /\ cfg' = IF errors = NoErrors THEN form ELSE cfg
           /\ outcome' =
                [NoOutcome EXCEPT
                    !.kind = IF errors = NoErrors THEN "saved"
                             ELSE "ValidationError",
                    !.errors = errors]
    /\ pc' = "done"
    /\ op' = "full_clean"
    /\ params' = form
    /\ reply' = NoReply
    /\ calls' = <<>>

(***************************************************************************)
(* The outbound HTTP call and the upstream reply.                          *)
(***************************************************************************)
Headers(accept, requestor_nrn, municipality_nis) ==
    (IF accept = None THEN <<>> ELSE "Accept" :> accept)
        @@ (IF requestor_nrn = None THEN <<>>
            ELSE "X-IMIO-REQUESTOR-NRN" :> requestor_nrn)
        @@ ("X-IMIO-MUNICIPALITY-NIS" :> municipality_nis)

Get(url, auth, headers, query) ==
    [method |-> "GET", url |-> url, auth |-> auth, headers |-> headers,
     params |-> query]

\* The session property: a new session at every access, carrying the
\* configured credentials and two headers.
session_without_auth ==
    [auth |-> <<>>,
     headers |-> Headers("application/json", None, cfg.municipality_nis_code)]

session ==
    [auth |-> <<cfg.username, cfg.password>>,
     headers |-> Headers("application/json", None, cfg.municipality_nis_code)]

\* What the HTTP client can answer: without a URL scheme no request leaves
\* and the client raises; otherwise it raises or delivers a response.
Upstream ==
    {r \in Replies : r.kind = "response" => cfg.url # <<>>}

\* Response.raise_for_status raises for the client and server error classes.
raise_for_status_server_only(status_code) ==
    500 <= status_code /\ status_code < 600

raise_for_status(status_code) ==
    400 <= status_code /\ status_code < 600

(***************************************************************************)
(* list-extract-types                                                      *)
(***************************************************************************)
filter_modele_2_inverted(items) ==
    SelectSeq(items, LAMBDA type_casier : type_casier.code = "5962")

filter_modele_2(items) ==
    SelectSeq(items, LAMBDA type_casier : type_casier.code # "5962")

list_extract_types(language, modele_2) ==
    /\ pc # "awaiting"
    /\ LET url == cfg.url \o <<"/", "cjcs-extract-types">>
       IN  calls' = <<Get(url, session.auth, session.headers,
                          "language" :> language)>>
    /\ pc' = "awaiting"
    /\ op' = "list-extract-types"
    /\ params' = [language |-> language, modele_2 |-> modele_2]
    /\ reply' = NoReply
    /\ outcome' = NoOutcome
    /\ UNCHANGED cfg

\* The handler from the reply on.
list_extract_types_status_first(modele_2, response) ==
    IF response.kind = "RequestException"
    THEN APIError("RequestException")
    ELSE IF raise_for_status(response.status_code)
    THEN APIError("HTTPError")
    ELSE IF ~response.body.json
    THEN APIError("bad JSON response")
    ELSE IF modele_2
    THEN ReturnJson(response.body)
    ELSE IF response.body.shape # "object"
    THEN Raise("TypeError")
    ELSE IF ~response.body.has_items
    THEN Raise("KeyError")
    ELSE ReturnJson([response.body EXCEPT !.items = filter_modele_2(@)])

list_extract_types_outcome(modele_2, response) ==
    IF response.kind = "RequestException"
    THEN APIError("RequestException")
    ELSE IF ~response.body.json
    THEN APIError("bad JSON response")
    ELSE IF raise_for_status(response.status_code)
    THEN APIError("HTTPError")
    ELSE IF modele_2
    THEN ReturnJson(response.body)
    ELSE IF response.body.shape # "object"
    THEN Raise("TypeError")
    ELSE IF ~response.body.has_items
    THEN Raise("KeyError")
    ELSE ReturnJson([response.body EXCEPT !.items = filter_modele_2(@)])

list_extract_types_response(response) ==
    /\ pc = "awaiting"
    /\ op = "list-extract-types"
    /\ response \in Upstream
    /\ reply' = response
    /\ outcome' = list_extract_types_outcome(params.modele_2, response)
    /\ pc' = "done"
    /\ UNCHANGED <<cfg, op, params, calls>>

(***************************************************************************)
(* get-extract                                                             *)
(***************************************************************************)
ExtractCodes == {"595"}

PersonNrns == {"15010123487"}

RequestorNrns == {"85010112345"}

CommuneNis == {None, "92003"}

\* The message of the status-based error interpolates the local variable e,
\* which is bound only while an except clause runs.
status_error(e_is_bound) ==
    IF e_is_bound THEN APIError("HTTPError") ELSE Raise("UnboundLocalError")

get_extract_store_nis(extract_code, person_nrn, requestor_nrn, commune_nis, language) ==
    /\ pc # "awaiting"
    /\ LET nis == IF commune_nis = None THEN cfg.municipality_nis_code
                  ELSE commune_nis
           url == cfg.url \o <<"/", "cjcs-extracts", "/", person_nrn, "/",
                               extract_code>>
       IN  /\ calls' = <<Get(url, <<cfg.username, cfg.password>>,
                             Headers(None, requestor_nrn, nis),
                             "language" :> language)>>
           /\ cfg' = [cfg EXCEPT !.municipality_nis_code = nis]
    /\ pc' = "awaiting"
    /\ op' = "get-extract"
    /\ params' = [extract_code |-> extract_code, person_nrn |-> person_nrn,
                  requestor_nrn |-> requestor_nrn,
                  commune_nis |-> commune_nis, language |-> language]
    /\ reply' = NoReply
    /\ outcome' = NoOutcome

get_extract(extract_code, person_nrn, requestor_nrn, commune_nis, language) ==
    /\ pc # "awaiting"
    /\ LET nis == IF commune_nis = None THEN cfg.municipality_nis_code
                  ELSE commune_nis
           url == cfg.url \o <<"/", "cjcs-extracts", "/", person_nrn, "/",
                               extract_code>>
       IN  calls' = <<Get(url, <<cfg.username, cfg.password>>,
                          Headers(None, requestor_nrn, nis),
                          "language" :> language)>>
    /\ pc' = "awaiting"
    /\ op' = "get-extract"
    /\ params' = [extract_code |-> extract_code, person_nrn |-> person_nrn,
                  requestor_nrn |-> requestor_nrn,
                  commune_nis |-> commune_nis, language |-> language]
    /\ reply' = NoReply
    /\ outcome' = NoOutcome
    /\ UNCHANGED cfg

get_extract_outcome_client_errors(response) ==
    IF response.kind = "RequestException"
    THEN APIError("RequestException")
    ELSE IF ~response.body.json
    THEN APIError("bad JSON response")
    ELSE IF response.status_code >= 400
    THEN status_error(FALSE)
    ELSE ReturnJson(response.body)

get_extract_outcome(response) ==
    IF response.kind = "RequestException"
    THEN APIError("RequestException")
    ELSE IF ~response.body.json
    THEN APIError("bad JSON response")
    ELSE IF response.status_code >= 500
    THEN status_error(FALSE)
    ELSE ReturnJson(response.body)

get_extract_response_retry(response) ==
    /\ pc = "awaiting"
    /\ op = "get-extract"
    /\ response \in Upstream
    /\ reply' = response
    /\ IF response.kind = "RequestException" /\ Len(calls) < 2
       THEN /\ calls' = Append(calls, calls[1])
            /\ pc' = "awaiting"
            /\ outcome' = NoOutcome
       ELSE /\ calls' = calls
            /\ pc' = "done"
            /\ outcome' = get_extract_outcome(response)
    /\ UNCHANGED <<cfg, op, params>>

get_extract_response(response) ==
    /\ pc = "awaiting"
    /\ op = "get-extract"
    /\ response \in Upstream
    /\ reply' = response
    /\ outcome' = get_extract_outcome(response)
    /\ pc' = "done"
    /\ UNCHANGED <<cfg, op, params, calls>>

(***************************************************************************)
(* get-delayed-extract                                                     *)
(***************************************************************************)
UniqueIds == {"20240304-58"}

get_delayed_extract(unique_id, requestor_nrn, commune_nis) ==
    /\ pc # "awaiting"
    /\ LET nis == IF commune_nis = None THEN cfg.municipality_nis_code
                  ELSE commune_nis
           url == cfg.url \o <<"/", "cjcs-delayed-extracts", "/", unique_id>>
       IN  calls' = <<Get(url, <<cfg.username, cfg.password>>,
                          Headers(None, requestor_nrn, nis), <<>>)>>
    /\ pc' = "awaiting"
    /\ op' = "get-delayed-extract"
    /\ params' = [unique_id |-> unique_id, requestor_nrn |-> requestor_nrn,
                  commune_nis |-> commune_nis]
    /\ reply' = NoReply
    /\ outcome' = NoOutcome
    /\ UNCHANGED cfg

get_delayed_extract_outcome(response) ==
    IF response.kind = "RequestException"
    THEN APIError("RequestException")
    ELSE IF ~response.body.json
    THEN APIError("bad JSON response")
    ELSE IF response.status_code >= 500
    THEN status_error(FALSE)
    ELSE ReturnJson(response.body)

get_delayed_extract_response(response) ==
    /\ pc = "awaiting"
    /\ op = "get-delayed-extract"
    /\ response \in Upstream
    /\ reply' = response
    /\ outcome' = get_delayed_extract_outcome(response)
    /\ pc' = "done"
    /\ UNCHANGED <<cfg, op, params, calls>>

(***************************************************************************)
(* decode-extract                                                          *)
(***************************************************************************)
decode_extract_outcome(body) ==
    IF ~body.json
    THEN Raise("JSONDecodeError")
    ELSE IF body.shape # "object"
    THEN Raise("TypeError")
    ELSE IF body.pdf_base64.type = "absent"
    THEN Raise("KeyError")
    ELSE
        LET pdf == b64decode(body.pdf_base64)
        IN  IF pdf.ok
            THEN HttpResponse(pdf.bytes, "application/pdf")
            ELSE IF pdf.error = "ValueError"
            THEN APIError("bad PDF response")
            ELSE Raise(pdf.error)

decode_extract(body) ==
    /\ pc # "awaiting"
    /\ outcome' = decode_extract_outcome(body)
    /\ pc' = "done"
    /\ op' = "decode-extract"
    /\ params' = body
    /\ reply' = NoReply
    /\ calls' = <<>>
    /\ UNCHANGED cfg

Next ==
    \/ \E form \in Forms : full_clean(form)
    \/ \E language \in Languages, modele_2 \in BOOLEAN :
            list_extract_types(language, modele_2)
    \/ \E response \in Replies : list_extract_types_response(response)
    \/ \E extract_code \in ExtractCodes, person_nrn \in PersonNrns,
          requestor_nrn \in RequestorNrns, commune_nis \in CommuneNis,
          language \in Languages :
            get_extract(extract_code, person_nrn, requestor_nrn, commune_nis,
                        language)
    \/ \E response \in Replies : get_extract_response(response)
    \/ \E unique_id \in UniqueIds, requestor_nrn \in RequestorNrns,
          commune_nis \in CommuneNis :
            get_delayed_extract(unique_id, requestor_nrn, commune_nis)
    \/ \E response \in Replies : get_delayed_extract_response(response)
    \/ \E body \in RequestBodies : decode_extract(body)

Spec == Init /\ [][Next]_vars

(***************************************************************************)
(* Properties.                                                             *)
(***************************************************************************)
Done(endpoint) == pc = "done" /\ op = endpoint

JsonReply == reply.kind = "response" /\ reply.body.json

\* C1: every invocation of the four endpoints ends with a returned result
\* or with the typed APIError; no other failure escapes.
C1_OnlyTypedErrors ==
    (pc = "done" /\ op \in Endpoints) => outcome.kind \in {"return", "APIError"}

\* C2: in get-extract and get-delayed-extract a reply with status 500 or
\* above and a JSON body ends with APIError, and the JSON is not returned.
C2_ServerErrorIsAPIError ==
    (/\ pc = "done"
     /\ op \in {"get-extract", "get-delayed-extract"}
     /\ JsonReply
     /\ reply.status_code >= 500)
        => outcome.kind = "APIError"

\* The items whose code is not "5962", in their order.
RECURSIVE WithoutCode5962(_)
WithoutCode5962(items) ==
    IF items = <<>> THEN <<>>
    ELSE IF Head(items).code = "5962" THEN WithoutCode5962(Tail(items))
    ELSE <<Head(items)>> \o WithoutCode5962(Tail(items))

\* C3: a successful list-extract-types call whose JSON has an items list
\* returns the items whose code is not "5962", in order, when modele_2 is
\* false, and the items unchanged when it is true; the other fields of the
\* JSON are returned unchanged.
C3_FilterModele2 ==
    (/\ Done("list-extract-types")
     /\ JsonReply
     /\ reply.status_code < 400
     /\ reply.body.shape = "object"
     /\ reply.body.has_items)
        => /\ outcome.kind = "return"
           /\ outcome.json.items =
                IF params.modele_2 THEN reply.body.items
                ELSE WithoutCode5962(reply.body.items)
           /\ outcome.json = [reply.body EXCEPT !.items = outcome.json.items]
           /\ outcome.pdf = NoPdf

C3_Witness ==
    /\ Done("list-extract-types")
    /\ ~params.modele_2
    /\ outcome.kind = "return"
    /\ Len(reply.body.items) = 2
    /\ reply.body.items[1].code = "5962"
    /\ outcome.json.items = <<reply.body.items[2]>>

\* A text is valid base64 when it is the encoding of the bytes it decodes to.
ValidBase64(field) ==
    /\ field.type = "str"
    /\ b64decode(field).ok
    /\ b64encode(b64decode(field).bytes) = field.text

\* C4: decode-extract on a body with a pdf_base64 field returns the decoded
\* bytes as application/pdf when the field is valid base64, and ends with
\* APIError 'bad PDF response' when it is not.
C4_DecodeOrBadPdf ==
    (/\ Done("decode-extract")
     /\ params.json
     /\ params.shape = "object"
     /\ params.pdf_base64.type # "absent")
        => IF ValidBase64(params.pdf_base64)
           THEN outcome = HttpResponse(b64decode(params.pdf_base64).bytes,
                                       "application/pdf")
           ELSE outcome = APIError("bad PDF response")

\* C5: an invocation of list-extract-types, get-extract or
\* get-delayed-extract issues exactly one outbound call, whatever the reply,
\* and has no outcome without a call.
C5_ExactlyOneCall ==
    /\ op \in HttpEndpoints => Len(calls) = 1
    /\ (op \in HttpEndpoints /\ outcome # NoOutcome) => pc = "done"

C5_Witness ==
    /\ pc = "done"
    /\ op = "get-extract"
    /\ reply.kind = "RequestException"
    /\ outcome.kind = "APIError"
    /\ Len(calls) = 1

CustomHeaders == {"Accept", "X-IMIO-MUNICIPALITY-NIS", "X-IMIO-REQUESTOR-NRN"}

\* C6 as stated: every outbound call carries the configured credentials
\* as basic auth and the three custom headers.
C6_ThreeHeaders ==
    op \in HttpEndpoints =>
        \A i \in 1..Len(calls) :
            /\ calls[i].auth = <<cfg.username, cfg.password>>
            /\ CustomHeaders \subseteq DOMAIN calls[i].headers

\* C6 as amended: every outbound call carries the configured credentials as
\* basic auth; the call of list-extract-types carries Accept and
\* X-IMIO-MUNICIPALITY-NIS, the calls of get-extract and get-delayed-extract
\* carry X-IMIO-REQUESTOR-NRN and X-IMIO-MUNICIPALITY-NIS.
C6_AuthAndTwoHeaders ==
    op \in HttpEndpoints =>
        \A i \in 1..Len(calls) :
            LET call == calls[i]
            IN  /\ call.auth = <<cfg.username, cfg.password>>
                /\ op = "list-extract-types" =>
                    /\ DOMAIN call.headers =
                            {"Accept", "X-IMIO-MUNICIPALITY-NIS"}
                    /\ call.headers["Accept"] = "application/json"
                    /\ call.headers["X-IMIO-MUNICIPALITY-NIS"] =
                            cfg.municipality_nis_code
                /\ op # "list-extract-types" =>
                    /\ DOMAIN call.headers =
                            {"X-IMIO-REQUESTOR-NRN", "X-IMIO-MUNICIPALITY-NIS"}
                    /\ call.headers["X-IMIO-REQUESTOR-NRN"] =
                            params.requestor_nrn
                    /\ call.headers["X-IMIO-MUNICIPALITY-NIS"] =
                            IF params.commune_nis = None
                            THEN cfg.municipality_nis_code
                            ELSE params.commune_nis

C6_Witness ==
    /\ Done("list-extract-types")
    /\ cfg.username = "apims_user"
    /\ cfg.password = "s3cret"
    /\ calls[1].auth = <<"apims_user", "s3cret">>
    /\ "X-IMIO-REQUESTOR-NRN" \notin DOMAIN calls[1].headers

\* C7: no step of an invocation of the four endpoints, whether the
\* invocation succeeds or fails, changes the configuration; the connector
\* keeps no other state between invocations.
C7_ConfigurationUntouched ==
    [][op' \in Endpoints => cfg' = cfg]_vars

C7_Witness ==
    /\ Done("get-extract")
    /\ cfg.municipality_nis_code = "92094"
    /\ params.commune_nis = "92003"
    /\ calls[1].headers["X-IMIO-MUNICIPALITY-NIS"] = "92003"
    /\ outcome.kind = "exception"

WellFormedUrl(url) ==
    /\ Len(url) >= 3
    /\ url[1] \in Schemes
    /\ url[2] = "://"
    /\ url[3] \in Hosts
    /\ \A i \in 1..Len(url) : url[i] # " "

Accepted == op = "full_clean" /\ outcome.kind = "saved"

\* C8 as stated: an accepted configuration has a well-formed URL that does
\* not end with "/" and a non-empty username and password.
C8_WellFormedAndNonEmpty ==
    Accepted =>
        /\ WellFormedUrl(cfg.url)
        /\ cfg.url[Len(cfg.url)] # "/"
        /\ cfg.username # ""
        /\ cfg.password # ""

\* C8 as amended: an accepted configuration has a URL that is empty, or
\* well-formed and not ending with "/", and a username and a password of at
\* most 128 characters, either of which may be empty.
C8_AcceptedConfiguration ==
    Accepted =>
        /\ cfg = params
        /\ \/ cfg.url = <<>>
           \/ /\ WellFormedUrl(cfg.url)
              /\ cfg.url[Len(cfg.url)] # "/"
              /\ StrLen(cfg.url) <= 128
        /\ Len(cfg.username) <= 128
        /\ Len(cfg.password) <= 128

C8_Witness ==
    /\ Accepted
    /\ cfg.url = DefaultUrl
    /\ cfg.username = ""
    /\ cfg.password = "s3cret"

\* C9: in the three upstream endpoints a reply whose body is not JSON ends
\* with APIError 'bad JSON response' for every status, 2xx and 5xx included.
C9_BadJsonBeforeStatus ==
    (/\ pc = "done"
     /\ op \in HttpEndpoints
     /\ reply.kind = "response"
     /\ ~reply.body.json)
        => outcome = APIError("bad JSON response")

C9_Witness ==
    /\ Done("list-extract-types")
    /\ reply.kind = "response"
    /\ ~reply.body.json
    /\ reply.status_code >= 500
    /\ outcome = APIError("bad JSON response")

====
